---- MODULE Spec2Model ----
(***************************************************************************)
(* Model of the single-user Telegram relay bot (bot.js, second version,    *)
(* with utils.js and api.js / apiv2.js).                                   *)
(*                                                                         *)
(* Texts are TLA+ strings, handled character by character (Len, SubSeq,    *)
(* \o), so trimming, prefix tests and the command patterns are computed    *)
(* as the JavaScript computes them.  A JavaScript value that may be        *)
(* undefined (msg.text, a catalog entry's id, name or notes,               *)
(* currentModelId) is a record [type, val].                                *)
(***************************************************************************)
EXTENDS Integers, Sequences, FiniteSets, TLC

VARIABLES
    modelsFile,       \* models.json as found on disk at start-up
    running,          \* FALSE once process.exit was called
    stopping,         \* TRUE once shutdown called bot.stopPolling
    exitCode,         \* the code process.exit was called with, <<>> before
    currentMode,      \* bot.js: let currentMode
    availableModels,  \* bot.js: let availableModels
    currentModelId,   \* bot.js: let currentModelId
    updates,          \* the inbound updates handed to the bot so far, in order
    tasks,            \* per update: the position of its async 'message' handler
    calls,            \* every outbound call made so far, in order
    api               \* a direct invocation of one of the two API callers

vars == <<modelsFile, running, stopping, exitCode, currentMode, availableModels, currentModelId,
          updates, tasks, calls, api>>

botVars == <<modelsFile, running, stopping, exitCode, currentMode, availableModels, currentModelId,
             updates, tasks, calls>>

-----------------------------------------------------------------------------
(* Bounds of the model *)

MaxUpdates == 2

-----------------------------------------------------------------------------
(* JavaScript values and strings *)

Str(s) == [type |-> "string", val |-> s]

Undefined == [type |-> "undefined", val |-> ""]

\* truthiness of a string-or-undefined value
Truthy(v) == v.type = "string" /\ v.val # ""

\* `${v}` in a template literal
Interp(v) == IF v.type = "undefined" THEN "undefined" ELSE v.val

\* a || b
OrElse(a, b) == IF a # "" THEN a ELSE b

\* characters that have no escape in a TLA+ string, written as themselves
VT == ""     \* U+000B LINE TABULATION

NBSP == " "   \* U+00A0 NO-BREAK SPACE

BOM == "﻿"    \* U+FEFF ZERO WIDTH NO-BREAK SPACE

OghamSpace == " "  \* U+1680 OGHAM SPACE MARK

\* A string of the model checker cannot hold a character above U+00FF whose
\* low byte is below 0x80.  Sixteen characters that String.prototype.trim
\* strips are of that kind; the model writes each as one of the sixteen
\* noncharacters U+FDD0 to U+FDDF, which Unicode keeps out of any text that is
\* interchanged and which therefore stand for nothing else.
EnQuad == "﷐"  \* U+2000 EN QUAD, written as U+FDD0

EmQuad == "﷑"  \* U+2001 EM QUAD, written as U+FDD1

EnSpace == "﷒"  \* U+2002 EN SPACE, written as U+FDD2

EmSpace == "﷓"  \* U+2003 EM SPACE, written as U+FDD3

ThreePerEmSpace == "﷔"  \* U+2004 THREE-PER-EM SPACE, written as U+FDD4

FourPerEmSpace == "﷕"  \* U+2005 FOUR-PER-EM SPACE, written as U+FDD5

SixPerEmSpace == "﷖"  \* U+2006 SIX-PER-EM SPACE, written as U+FDD6

FigureSpace == "﷗"  \* U+2007 FIGURE SPACE, written as U+FDD7

PunctuationSpace == "﷘"  \* U+2008 PUNCTUATION SPACE, written as U+FDD8

ThinSpace == "﷙"  \* U+2009 THIN SPACE, written as U+FDD9

HairSpace == "﷚"  \* U+200A HAIR SPACE, written as U+FDDA

LineSeparator == "﷛"  \* U+2028 LINE SEPARATOR, written as U+FDDB

ParagraphSeparator == "﷜"  \* U+2029 PARAGRAPH SEPARATOR, written as U+FDDC

NarrowNBSP == "﷝"  \* U+202F NARROW NO-BREAK SPACE, written as U+FDDD

MediumMathSpace == "﷞"  \* U+205F MEDIUM MATHEMATICAL SPACE, written as U+FDDE

IdeographicSpace == "﷟"  \* U+3000 IDEOGRAPHIC SPACE, written as U+FDDF

\* what String.prototype.trim strips: the WhiteSpace and LineTerminator code
\* points of ECMAScript
IsWhiteSpace(c) ==
    c \in {" ", "\t", "\n", "\r", "\f", VT, NBSP, BOM, OghamSpace,
           EnQuad, EmQuad, EnSpace, EmSpace, ThreePerEmSpace, FourPerEmSpace,
           SixPerEmSpace, FigureSpace, PunctuationSpace, ThinSpace, HairSpace,
           LineSeparator, ParagraphSeparator, NarrowNBSP, MediumMathSpace,
           IdeographicSpace}

\* what "." of a regular expression refuses: the LineTerminator code points
IsLineTerminator(c) == c \in {"\n", "\r", LineSeparator, ParagraphSeparator}

RECURSIVE TrimStart(_)
TrimStart(s) ==
    IF s # "" /\ IsWhiteSpace(Head(s)) THEN TrimStart(Tail(s)) ELSE s

RECURSIVE TrimEnd(_)
TrimEnd(s) ==
    IF s # "" /\ IsWhiteSpace(SubSeq(s, Len(s), Len(s)))
    THEN TrimEnd(SubSeq(s, 1, Len(s) - 1))
    ELSE s

\* String.prototype.trim
Trim(s) == TrimEnd(TrimStart(s))

\* String.prototype.startsWith
StartsWith(s, p) == Len(s) >= Len(p) /\ SubSeq(s, 1, Len(p)) = p

\* String.prototype.includes
Includes(s, p) ==
    \E i \in 1..(Len(s) - Len(p) + 1) : SubSeq(s, i, i + Len(p) - 1) = p

Digit(d) == SubSeq("0123456789", d + 1, d + 1)

\* `${n}` for a non-negative integer
RECURSIVE NumToStr(_)
NumToStr(n) == IF n < 10 THEN Digit(n) ELSE NumToStr(n \div 10) \o Digit(n % 10)

-----------------------------------------------------------------------------
(* Configuration (bot.js, from the environment) *)

\* AUTHORIZED_USER_ID, a valid number: anything else ends the process at start-up
authorizedUserId == 1001

\* DEEPSEEK_MODEL
defaultModelId == "deepseek/chat"

Modes == {"prompt", "commit", "chat"}

-----------------------------------------------------------------------------
(* utils.js *)

\* authorizedUserId is a number, so the typeof/isNaN guard is passed
isAuthorized(userId, authId) == userId = authId

\* one outbound call; req is the JSON body of a fetch, NoReq otherwise
NoReq == [model |-> Undefined, messages |-> <<>>]

SendCall(u, text) ==
    [op |-> "sendMessage", update |-> u, text |-> text, messageId |-> 0, req |-> NoReq]

EditCall(u, text, messageId) ==
    [op |-> "editMessageText", update |-> u, text |-> text,
     messageId |-> messageId, req |-> NoReq]

FetchCall(u, req) ==
    [op |-> "fetch", update |-> u, text |-> "", messageId |-> 0, req |-> req]

\* sendMessage(bot, chatId, text): the calls made so far, and after it
sendMessage(cs, u, text) ==
    IF Trim(text) = "" THEN cs ELSE Append(cs, SendCall(u, text))

-----------------------------------------------------------------------------
(* api.js and apiv2.js: composing the request *)

PromptSystem ==
    "You are an AI assistant specialized in refining text for AI prompts. Translate the user's input into clear, concise, and unambiguous English suitable for prompting another AI. Respond *only* with the translated text and absolutely nothing else. Do not add any introductory phrases, explanations, or conversational filler."

CommitSystem ==
    "You are an AI assistant specialized in formatting text into git commit messages. Translate the user's input into a clear and concise English git commit message following conventional standards (e.g., 'feat: add user authentication'). Respond *only* in the format `git commit -m \"COMMIT_CONTENT\"`. If you can think of 1 or 2 significantly better alternative phrasings for the commit message, provide them on new lines, each prefixed with 'Alternative:'. Do not add any other introductory text, explanations, or conversation."

ChatSystem ==
    "You are a helpful AI assistant. Respond conversationally and helpfully to the user's message. Always respond in User's language. If the user uses Chinese, respond in Traditional Chinese."

PromptPrefix == "Translate the following prompt into English\n--- --- ---\n"

CommitPrefix == "Translate the following commit message into English\n--- --- ---\n"

InputEmptyText == "Input cannot be empty."

InvalidModeText == "Internal error: Invalid processing mode."

systemPrompt(mode) ==
    IF mode = "prompt" THEN PromptSystem
    ELSE IF mode = "commit" THEN CommitSystem
    ELSE IF mode = "chat" THEN ChatSystem
    ELSE ""

\* modPrefix with the two translation prefixes swapped
modPrefixSwappedMut(mode) ==
    IF mode = "prompt" THEN CommitPrefix
    ELSE IF mode = "commit" THEN PromptPrefix
    ELSE ""

modPrefix(mode) ==
    IF mode = "prompt" THEN PromptPrefix
    ELSE IF mode = "commit" THEN CommitPrefix
    ELSE ""

\* a message's content: a string, or an array of {type, text} blocks
StrContent(s) == [type |-> "string", val |-> s, blocks |-> <<>>]

ArrContent(blocks) == [type |-> "array", val |-> "", blocks |-> blocks]

\* what a caller does before it awaits: return a text at once, or fetch
Return(text) == [done |-> TRUE, value |-> text, req |-> NoReq]

Fetch(req) == [done |-> FALSE, value |-> "", req |-> req]

buildStandardMessages(sys, userPrompt, prefix) ==
    (IF sys # "" THEN <<[role |-> "system", content |-> StrContent(sys)]>> ELSE <<>>)
    \o <<[role |-> "user", content |-> StrContent(prefix \o userPrompt)]>>

buildGoogleMessages(sys, userPrompt, prefix) ==
    (IF sys # ""
     THEN <<[role |-> "system",
             content |-> ArrContent(<<[type |-> "text", text |-> sys]>>)]>>
     ELSE <<>>)
    \o <<[role |-> "user",
          content |-> ArrContent(<<[type |-> "text", text |-> prefix \o userPrompt]>>)]>>

\* ComposeDeepSeek testing the input for emptiness before trimming it
ComposeDeepSeekNoTrimMut(inputText, mode, modelId) ==
    LET userPrompt == Trim(inputText) IN
    IF inputText = "" THEN Return(InputEmptyText)
    ELSE IF mode \notin Modes THEN Return(InvalidModeText)
    ELSE Fetch([model |-> modelId,
                messages |->
                    <<[role |-> "system", content |-> StrContent(systemPrompt(mode))],
                      [role |-> "user",
                       content |-> StrContent(modPrefix(mode) \o userPrompt)]>>])

\* callDeepSeekAPI up to its fetch
ComposeDeepSeek(inputText, mode, modelId) ==
    LET userPrompt == Trim(inputText) IN
    IF userPrompt = "" THEN Return(InputEmptyText)
    ELSE IF mode \notin Modes THEN Return(InvalidModeText)
    ELSE Fetch([model |-> modelId,
                messages |->
                    <<[role |-> "system", content |-> StrContent(systemPrompt(mode))],
                      [role |-> "user",
                       content |-> StrContent(modPrefix(mode) \o userPrompt)]>>])

\* callOpenRouterAPI up to its fetch; modelId is a string here
ComposeOpenRouter(inputText, mode, modelId) ==
    LET userPrompt == Trim(inputText) IN
    IF userPrompt = "" THEN Return(InputEmptyText)
    ELSE IF mode \notin Modes THEN Return(InvalidModeText)
    ELSE LET isGoogleModel == StartsWith(modelId.val, "google/") IN
         Fetch([model |-> modelId,
                messages |->
                    IF isGoogleModel
                    THEN buildGoogleMessages(systemPrompt(mode), userPrompt, modPrefix(mode))
                    ELSE buildStandardMessages(systemPrompt(mode), userPrompt, modPrefix(mode))])

-----------------------------------------------------------------------------
(* api.js and apiv2.js: what the fetch settles with, and the text returned *)

\* fetch resolved with an HTTP response whose body arrives and is an object
\* (when it is JSON at all)
HttpResponse(status, isJson, errorMessage, hasChoices, choices, parseError) ==
    [kind |-> "http", status |-> status, readable |-> TRUE, isJson |-> isJson,
     isNull |-> FALSE, errorMessage |-> errorMessage, hasChoices |-> hasChoices,
     choices |-> choices, errName |-> "SyntaxError", errMessage |-> parseError]

\* fetch resolved with an HTTP response whose body is the JSON text null
NullBody(status) ==
    [kind |-> "http", status |-> status, readable |-> TRUE, isJson |-> TRUE,
     isNull |-> TRUE, errorMessage |-> Undefined, hasChoices |-> FALSE,
     choices |-> <<>>, errName |-> "TypeError", errMessage |-> ""]

\* fetch resolved with an HTTP response whose body cannot be read:
\* response.text() or response.json() rejects with the error given
Unreadable(status, name, message) ==
    [kind |-> "http", status |-> status, readable |-> FALSE, isJson |-> FALSE,
     isNull |-> FALSE, errorMessage |-> Undefined, hasChoices |-> FALSE,
     choices |-> <<>>, errName |-> name, errMessage |-> message]

\* fetch rejected
Thrown(name, message) ==
    [kind |-> "throw", status |-> 0, readable |-> FALSE, isJson |-> FALSE,
     isNull |-> FALSE, errorMessage |-> Undefined, hasChoices |-> FALSE,
     choices |-> <<>>, errName |-> name, errMessage |-> message]

\* an object as choices[0]
Choice(hasMessage, content) ==
    [isNull |-> FALSE, hasMessage |-> hasMessage, content |-> content]

\* null as choices[0]
NullChoice == [isNull |-> TRUE, hasMessage |-> FALSE, content |-> Undefined]

\* 200 with choices[0].message.content as given
OkContent(content) ==
    HttpResponse(200, TRUE, Undefined, TRUE, <<Choice(TRUE, content)>>, "")

\* a non-success status whose body is JSON carrying error.message as given
ErrJson(status, message) == HttpResponse(status, TRUE, message, FALSE, <<>>, "")

\* a non-success status whose body is not JSON
ErrText(status) ==
    HttpResponse(status, FALSE, Undefined, FALSE, <<>>, "Unexpected token < in JSON at position 0")

UnexpectedText == "Sorry, I received an unexpected or empty response from the AI."

TimedOutText == "Sorry, the request to the AI timed out."

EmptyContentText == "[Received empty response from AI]"

NetworkErrorText(message) ==
    "Sorry, I encountered a network or processing error while contacting the AI. Details: "
        \o message

\* the catch block around the fetch and the reading of its response
Caught(name, message) ==
    IF name = "AbortError" THEN TimedOutText ELSE NetworkErrorText(message)

\* the message of the TypeError thrown when a property of null is read
NullReadMessage(property) ==
    "Cannot read properties of null (reading '" \o property \o "')"

\* ResultDeepSeek returning the trimmed content as it is, empty or not
ResultDeepSeekNoFallbackMut(o) ==
    IF o.kind = "throw" \/ ~o.readable
    THEN Caught(o.errName, o.errMessage)
    ELSE IF o.status \notin 200..299
    THEN "Sorry, I encountered an API error (" \o NumToStr(o.status) \o ")."
         \o (IF o.isJson /\ ~o.isNull /\ Truthy(o.errorMessage)
             THEN " Details: " \o o.errorMessage.val
             ELSE "")
    ELSE IF ~o.isJson THEN Caught(o.errName, o.errMessage)
    ELSE IF o.isNull THEN Caught("TypeError", NullReadMessage("choices"))
    ELSE IF o.hasChoices /\ Len(o.choices) > 0 /\ o.choices[1].isNull
    THEN Caught("TypeError", NullReadMessage("message"))
    ELSE IF /\ o.hasChoices
            /\ Len(o.choices) > 0
            /\ o.choices[1].hasMessage
            /\ o.choices[1].content.type = "string"
    THEN Trim(o.choices[1].content.val)
    ELSE UnexpectedText

\* ResultDeepSeek that never appends the details of the error body
ResultDeepSeekNoDetailsMut(o) ==
    IF o.kind = "throw" \/ ~o.readable
    THEN Caught(o.errName, o.errMessage)
    ELSE IF o.status \notin 200..299
    THEN "Sorry, I encountered an API error (" \o NumToStr(o.status) \o ")."
    ELSE IF ~o.isJson THEN Caught(o.errName, o.errMessage)
    ELSE IF o.isNull THEN Caught("TypeError", NullReadMessage("choices"))
    ELSE IF o.hasChoices /\ Len(o.choices) > 0 /\ o.choices[1].isNull
    THEN Caught("TypeError", NullReadMessage("message"))
    ELSE IF /\ o.hasChoices
            /\ Len(o.choices) > 0
            /\ o.choices[1].hasMessage
            /\ o.choices[1].content.type = "string"
    THEN OrElse(Trim(o.choices[1].content.val), EmptyContentText)
    ELSE UnexpectedText

\* callDeepSeekAPI from the settling of its fetch to its return value
ResultDeepSeek(o) ==
    IF o.kind = "throw" \/ ~o.readable
    THEN Caught(o.errName, o.errMessage)
    ELSE IF o.status \notin 200..299
    THEN "Sorry, I encountered an API error (" \o NumToStr(o.status) \o ")."
         \o (IF o.isJson /\ ~o.isNull /\ Truthy(o.errorMessage)
             THEN " Details: " \o o.errorMessage.val
             ELSE "")
    ELSE IF ~o.isJson THEN Caught(o.errName, o.errMessage)
    ELSE IF o.isNull THEN Caught("TypeError", NullReadMessage("choices"))
    ELSE IF o.hasChoices /\ Len(o.choices) > 0 /\ o.choices[1].isNull
    THEN Caught("TypeError", NullReadMessage("message"))
    ELSE IF /\ o.hasChoices
            /\ Len(o.choices) > 0
            /\ o.choices[1].hasMessage
            /\ o.choices[1].content.type = "string"
    THEN OrElse(Trim(o.choices[1].content.val), EmptyContentText)
    ELSE UnexpectedText

\* callOpenRouterAPI from the settling of its fetch to its return value
ResultOpenRouter(o) ==
    IF o.kind = "throw" \/ ~o.readable
    THEN Caught(o.errName, o.errMessage)
    ELSE IF o.status \notin 200..299
    THEN "Sorry, I encountered an API error (" \o NumToStr(o.status) \o ")."
         \o (IF o.isJson /\ ~o.isNull /\ Truthy(o.errorMessage)
             THEN " Details: " \o o.errorMessage.val
             ELSE "")
    ELSE IF ~o.isJson THEN Caught(o.errName, o.errMessage)
    ELSE IF o.isNull THEN Caught("TypeError", NullReadMessage("choices"))
    ELSE IF o.hasChoices /\ Len(o.choices) > 0 /\ o.choices[1].isNull
    THEN Caught("TypeError", NullReadMessage("message"))
    ELSE IF /\ o.hasChoices
            /\ Len(o.choices) > 0
            /\ o.choices[1].hasMessage
            /\ o.choices[1].content.type = "string"
    THEN OrElse(Trim(o.choices[1].content.val), EmptyContentText)
    ELSE UnexpectedText

\* the ways a fetch settles that the model draws from
Outcomes ==
    { OkContent(Str(" Hi\n")),
      OkContent(Str("  ")),
      OkContent(Undefined),
      HttpResponse(200, TRUE, Undefined, TRUE, <<>>, ""),
      HttpResponse(200, TRUE, Undefined, FALSE, <<>>, ""),
      HttpResponse(200, FALSE, Undefined, FALSE, <<>>, "Unexpected end of JSON input"),
      ErrJson(429, Str("rate limited")),
      ErrJson(401, Undefined),
      ErrText(500),
      NullBody(200),
      NullBody(500),
      HttpResponse(200, TRUE, Undefined, TRUE, <<NullChoice>>, ""),
      Unreadable(502, "TypeError", "terminated"),
      Unreadable(200, "AbortError", "This operation was aborted"),
      Thrown("AbortError", "This operation was aborted"),
      Thrown("TypeError", "fetch failed") }

\* the ones drawn from while several updates are in flight
BotOutcomes ==
    { OkContent(Str(" Hi\n")),
      ErrJson(429, Str("rate limited")) }

-----------------------------------------------------------------------------
(* bot.js: loading the model catalog *)

\* the entry made up from DEEPSEEK_MODEL
DefaultEntry ==
    [id |-> Str(defaultModelId),
     name |-> Str(defaultModelId \o " (Default from .env)"),
     notes |-> Str("")]

\* entries a models.json may hold; a missing key reads as undefined
DeepSeekEntry ==
    [id |-> Str(defaultModelId), name |-> Str("DeepSeek V3"), notes |-> Str("The default")]

GoogleEntry == [id |-> Str("google/gemini"), name |-> Undefined, notes |-> Undefined]

NoIdEntry == [id |-> Undefined, name |-> Str("No id"), notes |-> Undefined]

ModelFile(kind, entries) == [kind |-> kind, entries |-> entries]

\* models.json: absent, not JSON, JSON but no array, or an array of entries
ModelFiles ==
    { ModelFile("absent", <<>>),
      ModelFile("unparseable", <<>>),
      ModelFile("notArray", <<>>),
      ModelFile("array", <<>>),
      ModelFile("array", <<DeepSeekEntry, GoogleEntry>>),
      ModelFile("array", <<GoogleEntry>>),
      ModelFile("array", <<GoogleEntry, NoIdEntry>>),
      ModelFile("array", <<NoIdEntry, GoogleEntry>>),
      ModelFile("array", <<NoIdEntry>>) }

Loaded(run, models, id) ==
    [running |-> run, availableModels |-> models, currentModelId |-> id]

\* the "Load Models" block; running is FALSE where it calls process.exit(1)
LoadModels(file) ==
    IF file.kind = "absent"
    THEN Loaded(TRUE, <<DefaultEntry>>, Str(defaultModelId))
    ELSE IF file.kind \in {"unparseable", "notArray"}
    THEN \* JSON.parse or availableModels.some throws: the catch block
         Loaded(TRUE, <<DefaultEntry>>, Str(defaultModelId))
    ELSE LET parsed == file.entries
             defaultModelExists ==
                 \E i \in 1..Len(parsed) : parsed[i].id = Str(defaultModelId)
         IN  IF defaultModelExists THEN Loaded(TRUE, parsed, Str(defaultModelId))
             ELSE IF Len(parsed) > 0 THEN Loaded(TRUE, parsed, parsed[1].id)
             ELSE Loaded(FALSE, parsed, Str(defaultModelId))

-----------------------------------------------------------------------------
(* bot.js: the command handlers.  A handler maps the bot's settings and     *)
(* the calls made so far, st = [currentMode, currentModelId, calls], to     *)
(* what they are after it ran for update number u carrying msg.             *)

St(mode, id, cs) == [currentMode |-> mode, currentModelId |-> id, calls |-> cs]

AuthorizedText == "You are authorized."

DeniedText(userId) ==
    "User ID " \o NumToStr(userId) \o " is not authorized to use this bot."

HelpText(mode, id) ==
    "Available Commands:\n"
    \o "/help - Show this help message.\n"
    \o "/prompt_mode - Switch to Prompt Translation Mode.\n"
    \o "/commit_mode - Switch to Commit Translation Mode.\n"
    \o "/chat_mode - Switch to General Chat Mode.\n"
    \o "/list_models - Show available AI models and the current one.\n"
    \o "/set_model <model_id> - Switch the AI model to use.\n"
    \o "\n"
    \o "Current Mode: " \o mode \o "\n"
    \o "Current Model: " \o Interp(id) \o "\n"
    \o "\n"
    \o "Send any text message to process it with the current mode and model."

ModeSwitchedText(mode) ==
    IF mode = "prompt" THEN "Switched to Prompt Translation Mode."
    ELSE IF mode = "commit" THEN "Switched to Commit Translation Mode."
    ELSE "Switched to General Chat Mode."

ModelSwitchedText(id) == "Switched model to: " \o Interp(id)

ModelNotFoundText(requested) ==
    "Error: Model ID \"" \o requested
        \o "\" not found. Use /list_models to see available models."

AckText(mode, id) ==
    "Processing in " \o mode \o " mode with " \o Interp(id) \o "..."

\* ModelLines comparing the entry's name, not its id, with the active id
ModelLinesByNameMut(model, current) ==
    "- " \o (IF Truthy(model.name) THEN model.name.val ELSE Interp(model.id))
    \o (IF model.name = current THEN " (Current)" ELSE "")
    \o "\n  ID: " \o Interp(model.id) \o "\n"
    \o (IF Truthy(model.notes) THEN "  Notes: " \o model.notes.val \o "\n" ELSE "")

\* one entry's lines in the /list_models reply
ModelLines(model, current) ==
    "- " \o (IF Truthy(model.name) THEN model.name.val ELSE Interp(model.id))
    \o (IF model.id = current THEN " (Current)" ELSE "")
    \o "\n  ID: " \o Interp(model.id) \o "\n"
    \o (IF Truthy(model.notes) THEN "  Notes: " \o model.notes.val \o "\n" ELSE "")

RECURSIVE ModelListBody(_, _)
ModelListBody(models, current) ==
    IF models = <<>> THEN ""
    ELSE ModelLines(Head(models), current) \o ModelListBody(Tail(models), current)

ModelListText(models, current) ==
    (IF Len(models) > 0
     THEN "Available Models:\n" \o ModelListBody(models, current)
     ELSE "No models loaded. Please check models.json or the .env configuration.")
    \o "\nCurrent Model ID: " \o Interp(current)

\* OnStart returning at once for a sender who is not authorized, as the
\* other handlers do
OnStartSilentMut(st, msg, u) ==
    IF ~isAuthorized(msg.from, authorizedUserId) THEN st
    ELSE [st EXCEPT !.calls = sendMessage(@, u, AuthorizedText)]

\* bot.onText(/^\/start/)
OnStart(st, msg, u) ==
    IF isAuthorized(msg.from, authorizedUserId)
    THEN [st EXCEPT !.calls = sendMessage(@, u, AuthorizedText)]
    ELSE [st EXCEPT !.calls = Append(@, SendCall(u, DeniedText(msg.from)))]

\* bot.onText(/^\/help$/)
OnHelp(st, msg, u) ==
    IF ~isAuthorized(msg.from, authorizedUserId) THEN st
    ELSE [st EXCEPT !.calls =
              sendMessage(@, u, HelpText(st.currentMode, st.currentModelId))]

\* OnModeSwitch with the chat handler setting the mode of the handler it was
\* copied from
OnModeSwitchCopiedMut(st, msg, u, mode) ==
    IF ~isAuthorized(msg.from, authorizedUserId) THEN st
    ELSE [st EXCEPT !.currentMode = IF mode = "chat" THEN "commit" ELSE mode,
                    !.calls = sendMessage(@, u, ModeSwitchedText(mode))]

\* OnModeSwitch with the commit handler storing a misspelt mode
OnModeSwitchTypoMut(st, msg, u, mode) ==
    IF ~isAuthorized(msg.from, authorizedUserId) THEN st
    ELSE [st EXCEPT !.currentMode = IF mode = "commit" THEN "comit" ELSE mode,
                    !.calls = sendMessage(@, u, ModeSwitchedText(mode))]

\* bot.onText(/^\/prompt_mode$/), (/^\/commit_mode$/), (/^\/chat_mode$/)
OnModeSwitch(st, msg, u, mode) ==
    IF ~isAuthorized(msg.from, authorizedUserId) THEN st
    ELSE [st EXCEPT !.currentMode = mode,
                    !.calls = sendMessage(@, u, ModeSwitchedText(mode))]

\* bot.onText(/^\/list_models$/)
OnListModels(st, msg, u, models) ==
    IF ~isAuthorized(msg.from, authorizedUserId) THEN st
    ELSE [st EXCEPT !.calls =
              sendMessage(@, u, ModelListText(models, st.currentModelId))]

\* OnSetModel without the trim of match[1]
OnSetModelNoTrimMut(st, msg, u, models, match1) ==
    IF ~isAuthorized(msg.from, authorizedUserId) THEN st
    ELSE LET requestedModelId == match1
             found == { i \in 1..Len(models) : models[i].id = Str(requestedModelId) }
         IN  IF found # {}
             THEN LET foundModel == models[CHOOSE i \in found : \A j \in found : i <= j]
                  IN  [st EXCEPT !.currentModelId = foundModel.id,
                                 !.calls = sendMessage(@, u, ModelSwitchedText(foundModel.id))]
             ELSE [st EXCEPT !.calls =
                       sendMessage(@, u, ModelNotFoundText(requestedModelId))]

\* bot.onText(/^\/set_model (.+)$/), match1 being match[1]
OnSetModel(st, msg, u, models, match1) ==
    IF ~isAuthorized(msg.from, authorizedUserId) THEN st
    ELSE LET requestedModelId == Trim(match1)
             found == { i \in 1..Len(models) : models[i].id = Str(requestedModelId) }
         IN  IF found # {}
             THEN LET foundModel == models[CHOOSE i \in found : \A j \in found : i <= j]
                  IN  [st EXCEPT !.currentModelId = foundModel.id,
                                 !.calls = sendMessage(@, u, ModelSwitchedText(foundModel.id))]
             ELSE [st EXCEPT !.calls =
                       sendMessage(@, u, ModelNotFoundText(requestedModelId))]

-----------------------------------------------------------------------------
(* bot.js and node-telegram-bot-api: one inbound update *)

\* MatchesStart for a pattern that lost the word after the slash
MatchesStartAnySlashMut(text) == StartsWith(text, "/")

\* /^\/start/
MatchesStart(text) == StartsWith(text, "/start")

\* /^\/set_model (.+)$/ : "." matches no line terminator, "$" only the end
MatchesSetModel(text) ==
    /\ StartsWith(text, "/set_model ")
    /\ Len(text) > Len("/set_model ")
    /\ \A i \in (Len("/set_model ") + 1)..Len(text) : ~IsLineTerminator(SubSeq(text, i, i))

\* match[1] of the pattern above
SetModelArg(text) == SubSeq(text, Len("/set_model ") + 1, Len(text))

commands ==
    {"/start", "/help", "/prompt_mode", "/commit_mode", "/chat_mode", "/list_models"}

\* IsPayload without the authorization check
IsPayloadNoAuthMut(msg) ==
    /\ Truthy(msg.text)
    /\ ~(msg.text.val \in commands \/ StartsWith(msg.text.val, "/set_model "))

\* IsPayload that also leaves out every text beginning with a slash
IsPayloadNoSlashMut(msg) ==
    /\ isAuthorized(msg.from, authorizedUserId)
    /\ Truthy(msg.text)
    /\ ~StartsWith(msg.text.val, "/")

\* bot.on('message') gets past its three early returns
IsPayload(msg) ==
    /\ isAuthorized(msg.from, authorizedUserId)
    /\ Truthy(msg.text)
    /\ ~(msg.text.val \in commands \/ StartsWith(msg.text.val, "/set_model "))

\* bot.on('message') up to its first await: the acknowledgment is sent
OnMessage(st, msg, u) ==
    IF IsPayload(msg)
    THEN [st EXCEPT !.calls =
              Append(@, SendCall(u, AckText(st.currentMode, st.currentModelId)))]
    ELSE st

\* the library runs every onText callback whose pattern matches, in the
\* order of registration
OnText(st, msg, u, models) ==
    LET t  == msg.text.val
        s1 == IF MatchesStart(t) THEN OnStart(st, msg, u) ELSE st
        s2 == IF t = "/help" THEN OnHelp(s1, msg, u) ELSE s1
        s3 == IF t = "/prompt_mode" THEN OnModeSwitch(s2, msg, u, "prompt") ELSE s2
        s4 == IF t = "/commit_mode" THEN OnModeSwitch(s3, msg, u, "commit") ELSE s3
        s5 == IF t = "/chat_mode" THEN OnModeSwitch(s4, msg, u, "chat") ELSE s4
        s6 == IF t = "/list_models" THEN OnListModels(s5, msg, u, models) ELSE s5
    IN  IF MatchesSetModel(t) THEN OnSetModel(s6, msg, u, models, SetModelArg(t)) ELSE s6

\* processUpdate: the 'message' listener first, then, for a message with a
\* text, the onText callbacks
Dispatch(st, msg, u, models) ==
    LET s0 == OnMessage(st, msg, u)
    IN  IF Truthy(msg.text) THEN OnText(s0, msg, u, models) ELSE s0

\* status is response.status once the fetch has resolved, 0 before
Task(pc, ackCall, ackId, aiResponse, edit) ==
    [pc |-> pc, ackCall |-> ackCall, ackId |-> ackId, status |-> 0,
     aiResponse |-> aiResponse, edit |-> edit]

\* the 'message' handler of an update after its synchronous part
NewTask(msg, cs) ==
    IF IsPayload(msg) THEN Task("awaitAck", Len(cs) + 1, 0, "", "none")
    ELSE Task("returned", 0, 0, "", "none")

NoResponseText == "Sorry, an error occurred and no response was generated."

ProcessingErrorText == "Sorry, an error occurred processing your request."

\* Relay that never edits the acknowledgment and always sends a new message
RelayNoEditMut(cs, task, u, aiResponse) ==
    [calls |-> sendMessage(cs, u, OrElse(aiResponse, ProcessingErrorText)),
     task |-> [task EXCEPT !.pc = "done", !.aiResponse = aiResponse]]

\* the position of the latest acknowledgment among the calls made so far
LastAck(cs) ==
    LET acks == {i \in 1..Len(cs) :
                    cs[i].op = "sendMessage" /\ StartsWith(cs[i].text, "Processing in ")}
    IN  CHOOSE i \in acks : \A j \in acks : j <= i

\* Relay with the acknowledgment kept in a variable shared by all handlers:
\* the edit goes to the acknowledgment sent last
RelaySharedAckMut(cs, task, u, aiResponse) ==
    IF task.ackId # 0
    THEN [calls |-> Append(cs, EditCall(u, OrElse(aiResponse, NoResponseText), LastAck(cs))),
          task |-> [task EXCEPT !.pc = "awaitEdit", !.aiResponse = aiResponse]]
    ELSE [calls |-> sendMessage(cs, u, OrElse(aiResponse, ProcessingErrorText)),
          task |-> [task EXCEPT !.pc = "done", !.aiResponse = aiResponse]]

\* Relay that sends the new message along with the edit instead of leaving
\* it to the .catch of the edit
RelayEditAndSendMut(cs, task, u, aiResponse) ==
    IF task.ackId # 0
    THEN [calls |-> sendMessage(
                        Append(cs, EditCall(u, OrElse(aiResponse, NoResponseText),
                                            task.ackId)),
                        u, OrElse(aiResponse, ProcessingErrorText)),
          task |-> [task EXCEPT !.pc = "awaitEdit", !.aiResponse = aiResponse]]
    ELSE [calls |-> sendMessage(cs, u, OrElse(aiResponse, ProcessingErrorText)),
          task |-> [task EXCEPT !.pc = "done", !.aiResponse = aiResponse]]

\* bot.on('message') from the return of the API caller on
Relay(cs, task, u, aiResponse) ==
    IF task.ackId # 0
    THEN [calls |-> Append(cs, EditCall(u, OrElse(aiResponse, NoResponseText), task.ackId)),
          task |-> [task EXCEPT !.pc = "awaitEdit", !.aiResponse = aiResponse]]
    ELSE [calls |-> sendMessage(cs, u, OrElse(aiResponse, ProcessingErrorText)),
          task |-> [task EXCEPT !.pc = "done", !.aiResponse = aiResponse]]

\* bot.on('message') from the settling of the acknowledgment to its next
\* await: the fetch inside callDeepSeekAPI, or, when callDeepSeekAPI returns
\* without fetching, the await of its already settled promise, at which the
\* handler still yields
AfterAck(cs, task, u, text, mode, id) ==
    LET c == ComposeDeepSeek(text, mode, id)
    IN  IF c.done
        THEN [calls |-> cs,
              task |-> [task EXCEPT !.pc = "awaitCall", !.aiResponse = c.value]]
        ELSE [calls |-> Append(cs, FetchCall(u, c.req)),
              task |-> [task EXCEPT !.pc = "awaitFetch"]]

\* AfterEditFailed that only logs the failure
AfterEditFailedLogOnlyMut(cs, u, aiResponse) == cs

\* the .catch of editMessageText
AfterEditFailed(cs, u, aiResponse) ==
    sendMessage(cs, u, OrElse(aiResponse, ProcessingErrorText))

-----------------------------------------------------------------------------
(* The inputs *)

Senders == {authorizedUserId, 2002}

Texts ==
    { "/start", "/start abc", "/help", "/help me", "/helpme",
      "/prompt_mode", "/commit_mode", "/chat_mode", "/list_models",
      "/set_model google/gemini", "/set_model  deepseek/chat ", "/set_model nope",
      "/set_model\tgoogle/gemini", "/set_model a\nb",
      "hello", " \n" }

\* the texts the authorized user sends while several updates are in flight:
\* each command, two plain texts, a blank text and a text with a line break
CoreTexts ==
    { "/start", "/help", "/prompt_mode", "/commit_mode", "/chat_mode", "/list_models",
      "/set_model google/gemini", "/set_model  deepseek/chat ", "/set_model nope",
      "/set_model a\nb", "hello", "/helpme", " \n" }

\* an update: the sender's id and msg.text, undefined for a sticker or a photo
InboundAny == [from : Senders, text : {Str(t) : t \in Texts} \cup {Undefined}]

Inbound ==
    {msg \in InboundAny :
        msg.from = authorizedUserId /\ Truthy(msg.text) => msg.text.val \in CoreTexts}

\* what the two API callers are called with when invoked on their own
ApiFunctions == {"callDeepSeekAPI", "callOpenRouterAPI"}

ApiInputs ==
    {"add login", "  hello \n", "", " ", " \t\n", VT \o NBSP \o BOM \o OghamSpace,
     IdeographicSpace \o LineSeparator \o ThinSpace}

ApiModes == Modes \cup {"bogus"}

ApiModelIds == {Str(defaultModelId), Str("google/gemini"), Str("x/google/y")}

NoOutcome == Thrown("", "")

IdleApi ==
    [pc |-> "idle", fn |-> "", inputText |-> "", mode |-> "", modelId |-> Undefined,
     req |-> NoReq, fetches |-> 0, status |-> 0, outcome |-> NoOutcome, result |-> ""]

-----------------------------------------------------------------------------
(* The bot as a state machine *)

Init ==
    \E file \in ModelFiles :
        /\ modelsFile = file
        /\ running = LoadModels(file).running
        /\ stopping = FALSE
        /\ exitCode = IF LoadModels(file).running THEN <<>> ELSE <<1>>
        /\ currentMode = "prompt"
        /\ availableModels = LoadModels(file).availableModels
        /\ currentModelId = LoadModels(file).currentModelId
        /\ updates = <<>>
        /\ tasks = <<>>
        /\ calls = <<>>
        /\ api = IdleApi

\* the library hands one update to the listeners
ProcessUpdate(msg) ==
    /\ running
    /\ ~stopping
    /\ Len(updates) < MaxUpdates
    /\ LET u  == Len(updates) + 1
           st == Dispatch(St(currentMode, currentModelId, calls), msg, u, availableModels)
       IN  /\ updates' = Append(updates, msg)
           /\ tasks' = Append(tasks, NewTask(msg, calls))
           /\ currentMode' = st.currentMode
           /\ currentModelId' = st.currentModelId
           /\ calls' = st.calls
    /\ UNCHANGED <<modelsFile, running, stopping, exitCode, availableModels, api>>

\* await bot.sendMessage(...) of the acknowledgment resolves or rejects
AckSettled(u, ok) ==
    /\ running
    /\ u \in 1..Len(tasks)
    /\ tasks[u].pc = "awaitAck"
    /\ LET t == [tasks[u] EXCEPT !.ackId = IF ok THEN tasks[u].ackCall ELSE 0]
           r == AfterAck(calls, t, u, updates[u].text.val, currentMode, currentModelId)
       IN  /\ calls' = r.calls
           /\ tasks' = [tasks EXCEPT ![u] = r.task]
    /\ UNCHANGED <<modelsFile, running, stopping, exitCode, currentMode, availableModels, currentModelId,
                   updates, api>>

\* the fetch of callDeepSeekAPI settles.  Rejected, the caller returns the
\* text of its catch block; resolved, it has the status and waits for the
\* body, at response.text() or response.json()
FetchSettled(u, o) ==
    /\ running
    /\ u \in 1..Len(tasks)
    /\ tasks[u].pc = "awaitFetch"
    /\ tasks' = [tasks EXCEPT ![u] =
                    IF o.kind = "throw"
                    THEN [@ EXCEPT !.pc = "awaitCall", !.aiResponse = ResultDeepSeek(o)]
                    ELSE [@ EXCEPT !.pc = "awaitBody", !.status = o.status]]
    /\ UNCHANGED <<modelsFile, running, stopping, exitCode, currentMode, availableModels,
                   currentModelId, updates, calls, api>>

\* the body of the response is read, or reading it fails, and the caller
\* returns its text
BodySettled(u, o) ==
    /\ running
    /\ u \in 1..Len(tasks)
    /\ tasks[u].pc = "awaitBody"
    /\ o.kind = "http"
    /\ o.status = tasks[u].status
    /\ tasks' = [tasks EXCEPT ![u].pc = "awaitCall",
                              ![u].aiResponse = ResultDeepSeek(o)]
    /\ UNCHANGED <<modelsFile, running, stopping, exitCode, currentMode, availableModels,
                   currentModelId, updates, calls, api>>

\* callDeepSeekAPI has returned and the handler resumes at
\* await callDeepSeekAPI(...): the relay
CallReturned(u) ==
    /\ running
    /\ u \in 1..Len(tasks)
    /\ tasks[u].pc = "awaitCall"
    /\ LET r == Relay(calls, tasks[u], u, tasks[u].aiResponse)
       IN  /\ calls' = r.calls
           /\ tasks' = [tasks EXCEPT ![u] = r.task]
    /\ UNCHANGED <<modelsFile, running, stopping, exitCode, currentMode, availableModels,
                   currentModelId, updates, api>>

\* bot.editMessageText(...) resolves or rejects
EditSettled(u, ok) ==
    /\ running
    /\ u \in 1..Len(tasks)
    /\ tasks[u].pc = "awaitEdit"
    /\ calls' = IF ok THEN calls ELSE AfterEditFailed(calls, u, tasks[u].aiResponse)
    /\ tasks' = [tasks EXCEPT ![u].pc = "done",
                              ![u].edit = IF ok THEN "ok" ELSE "failed"]
    /\ UNCHANGED <<modelsFile, running, stopping, exitCode, currentMode, availableModels, currentModelId,
                   updates, api>>

\* the errors the library reports while polling
PollingErrors ==
    { [code |-> "EFATAL", message |-> "boom"],
      [code |-> "EFATAL", message |-> "read ECONNRESET"],
      [code |-> "EFATAL", message |-> "connect ETIMEDOUT 149.154.167.220:443"],
      [code |-> "ETELEGRAM", message |-> "409 Conflict"],
      [code |-> "EPARSE", message |-> "Error parsing response"] }

\* bot.on('polling_error'): a fatal error that is no network error ends the
\* process, with the handlers that wait left as they are
PollingError(error) ==
    /\ running
    /\ IF Includes(error.message, "ETIMEDOUT") \/ Includes(error.message, "ECONNRESET")
       THEN UNCHANGED <<running, exitCode>>
       ELSE IF error.code = "EFATAL"
       THEN running' = FALSE /\ exitCode' = <<1>>
       ELSE UNCHANGED <<running, exitCode>>
    /\ UNCHANGED <<modelsFile, stopping, currentMode, availableModels, currentModelId,
                   updates, tasks, calls, api>>

Signals == {"SIGINT", "SIGTERM"}

\* shutdown(signal) up to bot.stopPolling({ cancel: true }): the request for
\* updates is cancelled, so no update is handed to the bot from here on
Shutdown(signal) ==
    /\ running
    /\ stopping' = TRUE
    /\ UNCHANGED <<modelsFile, running, exitCode, currentMode, availableModels,
                   currentModelId, updates, tasks, calls, api>>

\* the promise of bot.stopPolling settles: .then exits with 0, .catch with 1
StopPollingSettled(ok) ==
    /\ running
    /\ stopping
    /\ running' = FALSE
    /\ exitCode' = <<IF ok THEN 0 ELSE 1>>
    /\ UNCHANGED <<modelsFile, stopping, currentMode, availableModels, currentModelId,
                   updates, tasks, calls, api>>

Next ==
    \/ \E msg \in Inbound : ProcessUpdate(msg)
    \/ \E u \in 1..MaxUpdates, ok \in BOOLEAN : AckSettled(u, ok)
    \/ \E u \in 1..MaxUpdates, o \in BotOutcomes : FetchSettled(u, o)
    \/ \E u \in 1..MaxUpdates, o \in BotOutcomes : BodySettled(u, o)
    \/ \E u \in 1..MaxUpdates : CallReturned(u)
    \/ \E u \in 1..MaxUpdates, ok \in BOOLEAN : EditSettled(u, ok)
    \/ \E error \in PollingErrors : PollingError(error)
    \/ \E signal \in Signals : Shutdown(signal)
    \/ \E ok \in BOOLEAN : StopPollingSettled(ok)

Spec == Init /\ [][Next]_vars

\* a promise that is awaited settles while the process runs: the send of an
\* acknowledgment resolves or rejects, and so do the fetch of a request and
\* the reading of its response; a handler that awaits a settled promise is
\* resumed
Fairness ==
    \A u \in 1..MaxUpdates :
        /\ WF_vars(\E ok \in BOOLEAN : AckSettled(u, ok))
        /\ WF_vars(\E o \in BotOutcomes : FetchSettled(u, o))
        /\ WF_vars(\E o \in BotOutcomes : BodySettled(u, o))
        /\ WF_vars(CallReturned(u))

SpecLive == Spec /\ Fairness

-----------------------------------------------------------------------------
(* The bot handed one update, of any text from either sender *)

MaxDispatched == 1

NextDispatch ==
    \/ \E msg \in InboundAny :
          /\ Len(updates) < MaxDispatched
          /\ ProcessUpdate(msg)
    \/ \E u \in 1..MaxDispatched, ok \in BOOLEAN : AckSettled(u, ok)
    \/ \E u \in 1..MaxDispatched, o \in BotOutcomes : FetchSettled(u, o)
    \/ \E u \in 1..MaxDispatched, o \in BotOutcomes : BodySettled(u, o)
    \/ \E u \in 1..MaxDispatched : CallReturned(u)
    \/ \E u \in 1..MaxDispatched, ok \in BOOLEAN : EditSettled(u, ok)
    \/ \E error \in PollingErrors : PollingError(error)
    \/ \E signal \in Signals : Shutdown(signal)
    \/ \E ok \in BOOLEAN : StopPollingSettled(ok)

SpecDispatch == Init /\ [][NextDispatch]_vars

-----------------------------------------------------------------------------
(* The two API callers invoked on their own *)

Compose(fn, inputText, mode, modelId) ==
    IF fn = "callDeepSeekAPI" THEN ComposeDeepSeek(inputText, mode, modelId)
    ELSE ComposeOpenRouter(inputText, mode, modelId)

Result(fn, o) ==
    IF fn = "callDeepSeekAPI" THEN ResultDeepSeek(o) ELSE ResultOpenRouter(o)

\* the caller runs up to its return or its fetch
ApiCall(fn, inputText, mode, modelId) ==
    /\ api.pc = "idle"
    /\ LET c == Compose(fn, inputText, mode, modelId)
       IN  api' = [pc |-> IF c.done THEN "returned" ELSE "awaitFetch",
                   fn |-> fn, inputText |-> inputText, mode |-> mode,
                   modelId |-> modelId, req |-> c.req,
                   fetches |-> IF c.done THEN 0 ELSE 1, status |-> 0,
                   outcome |-> NoOutcome, result |-> c.value]
    /\ UNCHANGED botVars

\* its fetch settles: rejected, the caller returns the text of its catch
\* block; resolved, it has the status and waits for the body
ApiSettled(o) ==
    /\ api.pc = "awaitFetch"
    /\ api' = IF o.kind = "throw"
              THEN [api EXCEPT !.pc = "returned", !.outcome = o,
                               !.result = Result(api.fn, o)]
              ELSE [api EXCEPT !.pc = "awaitBody", !.status = o.status]
    /\ UNCHANGED botVars

\* the body is read, or reading it fails, and the caller returns
ApiBodySettled(o) ==
    /\ api.pc = "awaitBody"
    /\ o.kind = "http"
    /\ o.status = api.status
    /\ api' = [api EXCEPT !.pc = "returned", !.outcome = o, !.result = Result(api.fn, o)]
    /\ UNCHANGED botVars

NextApi ==
    \/ \E fn \in ApiFunctions, inputText \in ApiInputs, mode \in ApiModes,
          modelId \in ApiModelIds : ApiCall(fn, inputText, mode, modelId)
    \* as the bot calls it when the catalog gave it no model id
    \/ \E inputText \in ApiInputs, mode \in ApiModes :
          ApiCall("callDeepSeekAPI", inputText, mode, Undefined)
    \/ \E o \in Outcomes : ApiSettled(o)
    \/ \E o \in Outcomes : ApiBodySettled(o)

SpecApi == Init /\ [][NextApi]_vars

-----------------------------------------------------------------------------
(* The authorized user sending payloads only, every way the fetch settles *)

MaxRelayed == 1

RelayTexts == {"hello", " \n"}

NextRelay ==
    \/ \E t \in RelayTexts :
          /\ Len(updates) < MaxRelayed
          /\ ProcessUpdate([from |-> authorizedUserId, text |-> Str(t)])
    \/ \E u \in 1..MaxRelayed, ok \in BOOLEAN : AckSettled(u, ok)
    \/ \E u \in 1..MaxRelayed, o \in Outcomes : FetchSettled(u, o)
    \/ \E u \in 1..MaxRelayed, o \in Outcomes : BodySettled(u, o)
    \/ \E u \in 1..MaxRelayed : CallReturned(u)
    \/ \E u \in 1..MaxRelayed, ok \in BOOLEAN : EditSettled(u, ok)
    \/ \E error \in PollingErrors : PollingError(error)
    \/ \E signal \in Signals : Shutdown(signal)
    \/ \E ok \in BOOLEAN : StopPollingSettled(ok)

SpecRelay == Init /\ [][NextRelay]_vars

-----------------------------------------------------------------------------
(* Properties *)

\* the calls made for update u, in order
CallsOf(u) == SelectSeq(calls, LAMBDA c : c.update = u)

\* this step hands a new update to the bot
Handling == Len(updates') = Len(updates) + 1

Handled == updates'[Len(updates')]

SettingsUnchanged ==
    /\ currentMode' = currentMode
    /\ currentModelId' = currentModelId
    /\ availableModels' = availableModels

TextStartsWith(msg, p) == msg.text.type = "string" /\ StartsWith(msg.text.val, p)

\* a sender other than the authorized one, and no /start at the head of the text
Ignorable(msg) == msg.from # authorizedUserId /\ ~TextStartsWith(msg, "/start")

\* C1: a message from a sender other than the authorized one, whose text does
\* not begin with /start (or that has no text), causes no outbound call, at
\* the time it is handled or later, and leaves the mode, the active model and
\* the catalog as they were.
C1_UnauthorizedIsIgnored ==
    /\ [](\A u \in 1..Len(updates) :
            Ignorable(updates[u]) => CallsOf(u) = <<>> /\ tasks[u].pc = "returned")
    /\ [][Handling /\ Ignorable(Handled) => calls' = calls /\ SettingsUnchanged]_vars

\* a stranger's mode switch was handled while the authorized user's message
\* was being relayed
C1_Witness ==
    \E u, v \in 1..Len(updates) :
        /\ updates[u] = [from |-> 2002, text |-> Str("/commit_mode")]
        /\ v < u
        /\ tasks[v].pc = "done"

\* C2: a message from a sender other than the authorized one whose text
\* begins with /start gets exactly one reply, the denial notice, which
\* contains the sender's id; nothing else is sent or requested for it and
\* the settings stay as they were.
C2_UnauthorizedStartIsDenied ==
    /\ [](\A u \in 1..Len(updates) :
            LET msg == updates[u] IN
            msg.from # authorizedUserId /\ TextStartsWith(msg, "/start") =>
                /\ Len(CallsOf(u)) = 1
                /\ CallsOf(u)[1].op = "sendMessage"
                /\ StartsWith(CallsOf(u)[1].text, "User ID ")
                /\ Includes(CallsOf(u)[1].text, ToString(msg.from))
                /\ Includes(CallsOf(u)[1].text, "is not authorized to use this bot.")
                /\ tasks[u].pc = "returned")
    /\ [][Handling /\ Handled.from # authorizedUserId /\ TextStartsWith(Handled, "/start")
            => Len(calls') = Len(calls) + 1 /\ SettingsUnchanged]_vars

\* a stranger sent "/start abc" after the authorized user had left prompt mode
C2_Witness ==
    \E u \in 1..Len(updates) :
        /\ updates[u] = [from |-> 2002, text |-> Str("/start abc")]
        /\ currentMode = "chat"
        /\ CallsOf(u) # <<>>

ModeCommands == {"/prompt_mode", "/commit_mode", "/chat_mode"}

CommandedMode(text) ==
    IF text = "/prompt_mode" THEN "prompt"
    ELSE IF text = "/commit_mode" THEN "commit"
    ELSE "chat"

\* how the replies name a mode
ModeWord(mode) ==
    IF mode = "prompt" THEN "Prompt Translation Mode"
    ELSE IF mode = "commit" THEN "Commit Translation Mode"
    ELSE "General Chat Mode"

\* C3: a mode-switch command from the authorized sender, from any state,
\* leaves Mode equal to the commanded mode and sends one reply, which names
\* that mode.
C3_ModeSwitchAlwaysSucceeds ==
    [][Handling /\ Handled.from = authorizedUserId
          /\ Handled.text.type = "string" /\ Handled.text.val \in ModeCommands
        => LET mode == CommandedMode(Handled.text.val) IN
           /\ currentMode' = mode
           /\ currentModelId' = currentModelId
           /\ Len(calls') = Len(calls) + 1
           /\ SubSeq(calls', 1, Len(calls)) = calls
           /\ calls'[Len(calls')].op = "sendMessage"
           /\ calls'[Len(calls')].update = Len(updates')
           /\ calls'[Len(calls')].text = "Switched to " \o ModeWord(mode) \o "."]_vars

\* the mode went from prompt to commit and back to prompt
C3_Witness ==
    /\ Len(updates) = 2
    /\ updates[1] = [from |-> authorizedUserId, text |-> Str("/commit_mode")]
    /\ updates[2] = [from |-> authorizedUserId, text |-> Str("/prompt_mode")]
    /\ currentMode = "prompt"

\* the trimmed argument of a text that the model-switch pattern matches
RequestedId(text) == Trim(SetModelArg(text))

InCatalog(id) == \E i \in 1..Len(availableModels) : availableModels[i].id = Str(id)

\* C4: a model-switch command from the authorized sender whose trimmed
\* argument is the id of a catalog entry makes that id the active model and
\* the reply reports it; with any other argument the active model and the
\* mode stay as they were and the reply says the model was not found and
\* points to the list command.
C4_SetModel ==
    [][Handling /\ Handled.from = authorizedUserId
          /\ Handled.text.type = "string" /\ MatchesSetModel(Handled.text.val)
        => LET id == RequestedId(Handled.text.val)
               reply == calls'[Len(calls')]
           IN  /\ Len(calls') = Len(calls) + 1
               /\ reply.op = "sendMessage"
               /\ currentMode' = currentMode
               /\ availableModels' = availableModels
               /\ IF InCatalog(id)
                  THEN /\ currentModelId' = Str(id)
                       /\ reply.text = "Switched model to: " \o id
                  ELSE /\ currentModelId' = currentModelId
                       /\ Includes(reply.text, "\"" \o id \o "\" not found")
                       /\ Includes(reply.text, "Use /list_models")]_vars

\* a switch to an unknown id was refused, then a switch to a catalog id went
\* through
C4_Witness ==
    /\ Len(updates) = 2
    /\ updates[1] = [from |-> authorizedUserId, text |-> Str("/set_model nope")]
    /\ updates[2] = [from |-> authorizedUserId, text |-> Str("/set_model google/gemini")]
    /\ modelsFile = ModelFile("array", <<DeepSeekEntry, GoogleEntry>>)
    /\ currentModelId = Str("google/gemini")

\* C5: while the bot runs, the active model id is a string and is the id of
\* some catalog entry.
C5_ActiveModelIsCatalogId ==
    running =>
        /\ currentModelId.type = "string"
        /\ \E i \in 1..Len(availableModels) : availableModels[i].id = currentModelId

\* a text that one of the command patterns matches
IsCommandText(text) ==
    \/ StartsWith(text, "/start")
    \/ text \in {"/help", "/prompt_mode", "/commit_mode", "/chat_mode", "/list_models"}
    \/ MatchesSetModel(text)

\* C6: a text from the authorized sender that a command pattern matches,
\* /start with trailing content included, produces the command's reply only:
\* no acknowledgment, no composed request, no remote call.
C6_CommandShortCircuits ==
    \A u \in 1..Len(updates) :
        LET msg == updates[u] IN
        msg.from = authorizedUserId /\ msg.text.type = "string" /\ IsCommandText(msg.text.val)
        => /\ tasks[u].pc = "returned"
           /\ Len(CallsOf(u)) <= 1
           /\ \A i \in 1..Len(calls) : calls[i].update = u => calls[i].op = "sendMessage"

NoArgTokens == {"/help", "/prompt_mode", "/commit_mode", "/chat_mode", "/list_models"}

\* a no-argument command token other than /start, followed by more characters
NearMiss(msg) ==
    /\ msg.text.type = "string"
    /\ \E tok \in NoArgTokens :
          StartsWith(msg.text.val, tok) /\ Len(msg.text.val) > Len(tok)

\* C7: a near-miss command text from the authorized sender runs no command
\* handler and changes no setting: the only call made when it is handled is
\* the acknowledgment, and once the acknowledgment has settled a request
\* composed from that text has been sent.
C7_NearMissIsPayload ==
    /\ [](\A u \in 1..Len(updates) :
            /\ updates[u].from = authorizedUserId
            /\ NearMiss(updates[u])
            /\ tasks[u].pc \in {"awaitFetch", "awaitBody", "awaitCall", "awaitEdit", "done"}
            => \E i \in 1..Len(calls), m \in Modes :
                  /\ calls[i].op = "fetch"
                  /\ calls[i].update = u
                  /\ calls[i].req.messages[2].content.val
                        = modPrefix(m) \o updates[u].text.val)
    /\ [][Handling /\ Handled.from = authorizedUserId /\ NearMiss(Handled)
            => /\ SettingsUnchanged
               /\ Len(calls') = Len(calls) + 1
               /\ calls'[Len(calls')].op = "sendMessage"
               /\ StartsWith(calls'[Len(calls')].text, "Processing in ")
               /\ tasks'[Len(updates')].pc = "awaitAck"]_vars

\* "/helpme" was sent in commit mode and its request has gone out
C7_Witness ==
    \E u \in 1..Len(updates), i \in 1..Len(calls) :
        /\ updates[u] = [from |-> authorizedUserId, text |-> Str("/helpme")]
        /\ calls[i].op = "fetch"
        /\ calls[i].update = u
        /\ calls[i].req.messages[2].content.val = CommitPrefix \o "/helpme"

WhiteSpaceOnly(s) ==
    /\ s # ""
    /\ \A i \in 1..Len(s) :
          SubSeq(s, i, i) \in
              {" ", "\t", "\n", "\r", "\f", VT, NBSP, BOM, OghamSpace,
               EnQuad, EmQuad, EnSpace, EmSpace, ThreePerEmSpace, FourPerEmSpace,
               SixPerEmSpace, FigureSpace, PunctuationSpace, ThinSpace, HairSpace,
               LineSeparator, ParagraphSeparator, NarrowNBSP, MediumMathSpace,
               IdeographicSpace}

\* C8: a payload text made of white space only leads to no HTTP request, in
\* any mode and with any model, by either API caller, and what the bot then
\* delivers for it is "Input cannot be empty.".  The second part speaks of
\* the two callers alone, whatever the bot has done: it is evaluated where
\* the bot has been handed nothing yet.
C8_EmptyInputShortCircuits ==
    /\ \A u \in 1..Len(updates) :
          /\ updates[u].from = authorizedUserId
          /\ updates[u].text.type = "string"
          /\ WhiteSpaceOnly(updates[u].text.val)
          => /\ \A i \in 1..Len(calls) : calls[i].update = u => calls[i].op # "fetch"
             /\ tasks[u].pc # "awaitFetch"
             /\ tasks[u].pc \in {"awaitEdit", "done"} =>
                   /\ Len(CallsOf(u)) >= 2
                   /\ \A k \in 2..Len(CallsOf(u)) :
                         CallsOf(u)[k].text = "Input cannot be empty."
    /\ updates = <<>> =>
       \A fn \in ApiFunctions, inputText \in ApiInputs \cup Texts,
          mode \in ApiModes, modelId \in ApiModelIds :
          inputText = "" \/ WhiteSpaceOnly(inputText)
          => Compose(fn, inputText, mode, modelId)
                = [done |-> TRUE, value |-> "Input cannot be empty.", req |-> NoReq]

\* a white-space text was sent in chat mode and its acknowledgment failed, so
\* the fixed text went out as a new message
C8_Witness ==
    \E u \in 1..Len(updates) :
        /\ updates[u] = [from |-> authorizedUserId, text |-> Str(" \n")]
        /\ currentMode = "chat"
        /\ tasks[u].pc = "done"
        /\ tasks[u].ackId = 0
        /\ Len(CallsOf(u)) = 2

\* C9: the request sent for a payload (a text no command pattern matches) is
\* composed with the mode and the model that its acknowledgment names, also
\* when a mode or model switch is handled while the acknowledgment is pending.
C9_RequestUsesAcknowledgedSettings ==
    \A i \in 1..Len(calls) :
        calls[i].op = "fetch" /\ ~IsCommandText(updates[calls[i].update].text.val) =>
            LET ack == calls[tasks[calls[i].update].ackCall] IN
            \E m \in Modes :
                /\ ack.text = AckText(m, calls[i].req.model)
                /\ calls[i].req.messages[1].content.val = systemPrompt(m)

\* the edits, and the sends of the final text, made for update u
Deliveries(u) ==
    SelectSeq(calls, LAMBDA c :
        /\ c.update = u
        /\ \/ c.op = "editMessageText"
           \/ c.op = "sendMessage" /\ c.text = tasks[u].aiResponse)

\* C10: once the remote call of a payload has resolved: if its acknowledgment
\* was sent, the acknowledgment is edited to the final text, and a new message
\* with the same text follows if and only if that edit failed; if the
\* acknowledgment could not be sent, no edit is made and the final text is
\* sent as a new message.
C10_RelayPolicy ==
    \A u \in 1..Len(updates) :
        tasks[u].pc \in {"awaitEdit", "done"} =>
            LET t == tasks[u]
                final == t.aiResponse
                edit == [op |-> "editMessageText", update |-> u, text |-> final,
                         messageId |-> t.ackId, req |-> NoReq]
                send == [op |-> "sendMessage", update |-> u, text |-> final,
                         messageId |-> 0, req |-> NoReq]
            IN  /\ final # ""
                /\ IF t.ackId # 0
                   THEN /\ calls[t.ackId].update = u
                        /\ StartsWith(calls[t.ackId].text, "Processing in ")
                        /\ Deliveries(u) = IF t.edit = "failed" THEN <<edit, send>>
                                           ELSE <<edit>>
                   ELSE /\ t.pc = "done"
                        /\ Deliveries(u) = <<send>>

\* one exchange ended with a failed edit and a new message, another went on
\* after its acknowledgment could not be sent
C10_Witness ==
    \E u, v \in 1..Len(updates) :
        /\ tasks[u].pc = "done"
        /\ tasks[u].edit = "failed"
        /\ tasks[v].pc = "done"
        /\ tasks[v].ackCall # 0
        /\ tasks[v].ackId = 0
        /\ Len(Deliveries(v)) = 1


\* a text that is payload by the code and by the documentation alike: not
\* blank, and neither a command nor the start of /start or /set_model
PlainPayload(msg) ==
    /\ msg.from = authorizedUserId
    /\ msg.text.type = "string"
    /\ Trim(msg.text.val) # ""
    /\ msg.text.val \notin NoArgTokens
    /\ ~StartsWith(msg.text.val, "/start")
    /\ ~StartsWith(msg.text.val, "/set_model")

CommitCommand == [from |-> authorizedUserId, text |-> Str("/commit_mode")]

\* the position in calls of the k-th call made for update u
RECURSIVE PosOf(_, _, _)
PosOf(u, k, from) ==
    IF calls[from].update = u
    THEN IF k = 1 THEN from ELSE PosOf(u, k - 1, from + 1)
    ELSE PosOf(u, k, from + 1)

\* C11: when the authorized user sends /commit_mode and then a payload text,
\* the calls go out in this order: the reply confirming commit mode, the
\* acknowledgment naming commit mode and the active model, the remote
\* request, and, the acknowledgment having been sent, an edit of that very
\* message to the text the remote call returned.
C11_EndToEndOrder ==
    /\ [](\A u \in 1..(Len(updates) - 1) :
            updates[u] = CommitCommand /\ PlainPayload(updates[u + 1]) =>
                LET cmd == CallsOf(u)
                    cs  == CallsOf(u + 1)
                    t   == tasks[u + 1]
                IN  /\ cmd = <<[op |-> "sendMessage", update |-> u,
                                text |-> "Switched to Commit Translation Mode.",
                                messageId |-> 0, req |-> NoReq]>>
                    /\ Len(cs) >= 1
                    /\ PosOf(u, 1, 1) < PosOf(u + 1, 1, 1)
                    /\ cs[1].op = "sendMessage"
                    /\ StartsWith(cs[1].text, "Processing in commit mode with ")
                    /\ t.pc = "awaitAck" => Len(cs) = 1
                    /\ t.pc # "awaitAck" => Len(cs) >= 2 /\ cs[2].op = "fetch"
                    /\ t.pc \in {"awaitFetch", "awaitBody", "awaitCall"} => Len(cs) = 2
                    /\ t.pc \in {"awaitEdit", "done"} /\ t.ackId # 0 =>
                          /\ Len(cs) >= 3
                          /\ cs[3].op = "editMessageText"
                          /\ cs[3].messageId = PosOf(u + 1, 1, 1)
                          /\ cs[3].text \in
                                {"Hi",
                                 "Sorry, I encountered an API error (429). Details: rate limited"})
    /\ [][/\ Handling
          /\ Len(updates) >= 1
          /\ updates[Len(updates)] = CommitCommand
          /\ PlainPayload(Handled)
          => calls' = Append(calls,
                 [op |-> "sendMessage", update |-> Len(updates'),
                  text |-> "Processing in commit mode with "
                             \o Interp(currentModelId) \o "...",
                  messageId |-> 0, req |-> NoReq])]_vars

\* /commit_mode, then "hello", whose acknowledgment was edited to the answer
C11_Witness ==
    /\ updates = <<CommitCommand, [from |-> authorizedUserId, text |-> Str("hello")]>>
    /\ tasks[2].pc = "done"
    /\ tasks[2].edit = "ok"
    /\ Len(calls) = 4
    /\ calls[3].op = "fetch"
    /\ calls[4].op = "editMessageText"
    /\ calls[4].messageId = 2
    /\ calls[4].text = "Hi"

\* the user message of a request
UserContent(req) == req.messages[Len(req.messages)].content

\* C12: which form the user content of a relayed request takes depends on the
\* active model id alone: an id beginning with "google/" gives an array
\* holding exactly one {type: "text"} block, whose text is the prefix
\* followed by the payload; every other id gives a flat string.
C12_ContentVariantFollowsModel ==
    \A i \in 1..Len(calls) :
        /\ calls[i].op = "fetch"
        /\ calls[i].req.model.type = "string"
        /\ PlainPayload(updates[calls[i].update])
        =>  LET content == UserContent(calls[i].req)
                payload == Trim(updates[calls[i].update].text.val)
            IN  IF StartsWith(calls[i].req.model.val, "google/")
                THEN /\ content.type = "array"
                     /\ Len(content.blocks) = 1
                     /\ content.blocks[1].type = "text"
                     /\ \E m \in Modes : content.blocks[1].text = modPrefix(m) \o payload
                ELSE content.type = "string"

Separator == "\n--- --- ---\n"

\* the prefix each mode puts before the payload
ExpectedPrefix(mode) ==
    IF mode = "prompt" THEN "Translate the following prompt into English" \o Separator
    ELSE IF mode = "commit"
    THEN "Translate the following commit message into English" \o Separator
    ELSE ""

\* the system instruction of each mode, and words that tell it apart
ExpectedSystem(mode) ==
    IF mode = "prompt" THEN PromptSystem
    ELSE IF mode = "commit" THEN CommitSystem
    ELSE ChatSystem

SystemMark(mode) ==
    IF mode = "prompt" THEN "refining text for AI prompts"
    ELSE IF mode = "commit" THEN "formatting text into git commit messages"
    ELSE "You are a helpful AI assistant."

\* the text of a content, flat or in one block
ContentText(content) ==
    IF content.type = "string" THEN content.val ELSE content.blocks[1].text

\* C13: for a payload that is not empty once trimmed, either API caller
\* composes a request whose user content is the mode's prefix followed by the
\* trimmed payload (prompt and commit have their own prefix and the
\* separator, chat has none) and whose system instruction is that mode's
\* constant.
C13_PrefixAndSystemPerMode ==
    api.pc # "idle" /\ Trim(api.inputText) # "" /\ api.mode \in Modes =>
        LET msgs == api.req.messages IN
        /\ api.fetches = 1
        /\ Len(msgs) = 2
        /\ msgs[1].role = "system"
        /\ ContentText(msgs[1].content) = ExpectedSystem(api.mode)
        /\ Includes(ContentText(msgs[1].content), SystemMark(api.mode))
        /\ msgs[2].role = "user"
        /\ ContentText(msgs[2].content) = ExpectedPrefix(api.mode) \o Trim(api.inputText)

\* "  hello \n" was composed in commit mode
C13_Witness ==
    /\ api.pc = "awaitFetch"
    /\ api.fn = "callDeepSeekAPI"
    /\ api.mode = "commit"
    /\ api.inputText = "  hello \n"
    /\ api.req.messages[2].content.val
          = "Translate the following commit message into English\n--- --- ---\nhello"

\* C14: when the endpoint answers with a status outside 200..299, either API
\* caller returns a text that contains the status code; it also contains
\* error.message when the body is JSON carrying one, and is the bare text
\* with the status code when the body is not JSON.
C14_HttpErrorText ==
    api.pc = "returned" /\ api.fetches = 1 /\ api.outcome.kind = "http"
        /\ api.outcome.status \notin 200..299 =>
        LET o == api.outcome
            bare == "Sorry, I encountered an API error (" \o ToString(o.status) \o ")."
        IN  /\ StartsWith(api.result, bare)
            /\ Includes(api.result, ToString(o.status))
            /\ o.isJson /\ o.errorMessage.type = "string" /\ o.errorMessage.val # ""
                  => Includes(api.result, o.errorMessage.val)
            /\ ~o.isJson => api.result = bare

\* C14, amended: when the endpoint answers with a status outside 200..299 and
\* the body of the answer is read, either API caller returns a text that
\* contains the status code; it also contains error.message when the body is
\* JSON carrying one, and is the bare text with the status code when the body
\* is not JSON.  When reading the body fails, the caller returns the text of
\* a failed request instead: "timed out" for an abort, and otherwise the
\* network error text with the message of the failure.
C14_HttpErrorTextOfReadBody ==
    api.pc = "returned" /\ api.fetches = 1 /\ api.outcome.kind = "http"
        /\ api.outcome.status \notin 200..299 =>
        LET o == api.outcome
            bare == "Sorry, I encountered an API error (" \o ToString(o.status) \o ")."
        IN  IF o.readable
            THEN /\ StartsWith(api.result, bare)
                 /\ Includes(api.result, ToString(o.status))
                 /\ o.isJson /\ o.errorMessage.type = "string" /\ o.errorMessage.val # ""
                       => Includes(api.result, o.errorMessage.val)
                 /\ ~o.isJson => api.result = bare
            ELSE api.result
                   = IF o.errName = "AbortError"
                     THEN "Sorry, the request to the AI timed out."
                     ELSE "Sorry, I encountered a network or processing error while contacting the AI. Details: "
                            \o o.errMessage

\* 429 with {"error": {"message": "rate limited"}} came back to callDeepSeekAPI
C14_Witness ==
    /\ api.pc = "returned"
    /\ api.fn = "callDeepSeekAPI"
    /\ api.outcome = ErrJson(429, Str("rate limited"))
    /\ Includes(api.result, "429")
    /\ Includes(api.result, "rate limited")

\* a models.json that is missing or malformed: not JSON, no array, or an
\* array of entries none of which has an id
Malformed(file) ==
    \/ file.kind \in {"absent", "unparseable", "notArray"}
    \/ /\ file.kind = "array"
       /\ file.entries # <<>>
       /\ \A i \in 1..Len(file.entries) : file.entries[i].id.type = "undefined"

\* C15: with models.json missing or malformed the bot still starts, its
\* catalog is the single entry made up from the default model id, and the
\* active model is that default id.
C15_MalformedCatalogFallsBack ==
    Malformed(modelsFile) =>
        /\ running
        /\ Len(availableModels) = 1
        /\ availableModels[1].id = Str(defaultModelId)
        /\ currentModelId = Str(defaultModelId)

\* C16: a text of the authorized sender that no command pattern matches is
\* handed on to composition and never dropped without a reply; so is one
\* that begins with "/set_model " and whose argument the pattern rejects,
\* such as an argument holding a line break.  Stated for a bot whose active
\* model id is a string, as every well-formed catalog makes it.
C16_UnmatchedTextIsComposed ==
    \A u \in 1..Len(updates) :
        /\ currentModelId.type = "string"
        /\ updates[u].from = authorizedUserId
        /\ Truthy(updates[u].text)
        /\ ~IsCommandText(updates[u].text.val)
        => /\ tasks[u].pc # "returned"
           /\ CallsOf(u) # <<>>

\* C17: for a text of the authorized sender made of white space only, no
\* "Processing in ... mode" acknowledgment is sent: the acknowledgment is
\* kept for payloads that got past the empty-input test.  Stated for a bot
\* whose active model id is a string.
C17_NoAckForEmptyInput ==
    \A u \in 1..Len(updates) :
        /\ currentModelId.type = "string"
        /\ updates[u].from = authorizedUserId
        /\ updates[u].text.type = "string"
        /\ WhiteSpaceOnly(updates[u].text.val)
        => \A i \in 1..Len(calls) :
              calls[i].update = u => ~StartsWith(calls[i].text, "Processing in ")

\* a 2xx JSON body without a usable choices[0].message.content
MalformedShape(o) ==
    /\ o.kind = "http"
    /\ o.status \in 200..299
    /\ o.isJson
    /\ \/ o.isNull
       \/ ~o.hasChoices
       \/ o.choices = <<>>
       \/ o.choices[1].isNull
       \/ ~o.choices[1].hasMessage
       \/ o.choices[1].content.type # "string"

\* C18: whichever way its one HTTP request ends, an API caller has made at
\* most one request and has returned a text that is not blank: the
\* "unexpected or empty response" text for a body of the wrong shape, and a
\* different text, "timed out", for an aborted request.
C18_AdapterAlwaysReturnsText ==
    /\ api.pc \in {"idle", "awaitFetch", "awaitBody", "returned"}
    /\ api.fetches <= 1
    /\ api.pc \in {"awaitFetch", "awaitBody"} => api.fetches = 1
    /\ api.pc = "returned" =>
          /\ Trim(api.result) # ""
          /\ api.fetches = 1 =>
                LET o == api.outcome IN
                /\ MalformedShape(o) =>
                      api.result
                        = "Sorry, I received an unexpected or empty response from the AI."
                /\ o.kind = "throw" /\ o.errName = "AbortError" =>
                      api.result = "Sorry, the request to the AI timed out."
                /\ o.kind = "throw" /\ o.errName # "AbortError" =>
                      /\ StartsWith(api.result,
                            "Sorry, I encountered a network or processing error")
                      /\ Includes(api.result, o.errMessage)

\* the model-switch token, one white-space character of any kind, and a
\* remainder that is not blank, all on one line
SwitchShaped(text) ==
    /\ StartsWith(text, "/set_model")
    /\ \A i \in 1..Len(text) : ~IsLineTerminator(SubSeq(text, i, i))
    /\ Len(text) > Len("/set_model")
    /\ IsWhiteSpace(SubSeq(text, Len("/set_model") + 1, Len("/set_model") + 1))
    /\ Trim(SubSeq(text, Len("/set_model") + 1, Len(text))) # ""

SwitchArgument(text) == Trim(SubSeq(text, Len("/set_model") + 1, Len(text)))

\* C19: a text of the authorized sender made of the model-switch token, white
\* space of any kind and a remainder is the model-switch command with the
\* trimmed remainder as argument: it gets the command's reply about that
\* argument and is not composed as payload.  Stated for a bot whose active
\* model id is a string.
C19_AnyWhiteSpaceSeparatesArgument ==
    \A u \in 1..Len(updates) :
        /\ currentModelId.type = "string"
        /\ updates[u].from = authorizedUserId
        /\ updates[u].text.type = "string"
        /\ SwitchShaped(updates[u].text.val)
        => /\ tasks[u].pc = "returned"
           /\ Len(CallsOf(u)) = 1
           /\ CallsOf(u)[1].op = "sendMessage"
           /\ Includes(CallsOf(u)[1].text, SwitchArgument(updates[u].text.val))
           /\ \/ StartsWith(CallsOf(u)[1].text, "Switched model to: ")
              \/ StartsWith(CallsOf(u)[1].text, "Error: Model ID ")

\* the calls that carry a final text for update u: the edits, and the sends
\* other than the acknowledgment
FinalCalls(u) ==
    SelectSeq(calls, LAMBDA c :
        /\ c.update = u
        /\ \/ c.op = "editMessageText"
           \/ c.op = "sendMessage" /\ ~StartsWith(c.text, "Processing in "))

\* C20: the final text relayed to the chat is never blank, and the new
\* message sent when the edit fails carries the text the edit carried,
\* whatever the remote call gave: content, blank content, any error, or the
\* refusal of an empty input.
C20_FinalTextNeverBlank ==
    \A u \in 1..Len(updates) :
        LET t == tasks[u]
            fs == FinalCalls(u)
        IN  /\ \A k \in 1..Len(fs) : Trim(fs[k].text) # ""
            /\ t.pc \in {"awaitEdit", "done"} =>
                  /\ Trim(t.aiResponse) # ""
                  /\ Len(fs) >= 1
                  /\ \A k \in 1..Len(fs) : fs[k].text = fs[1].text
                  /\ t.ackId # 0 => fs[1].op = "editMessageText"
                  /\ t.edit = "failed" =>
                        /\ Len(fs) = 2
                        /\ fs[1].op = "editMessageText"
                        /\ fs[2].op = "sendMessage"

\* the remote call gave blank content, the edit to the stand-in text failed
\* and the same text went out as a new message
C20_Witness ==
    \E u \in 1..Len(updates) :
        /\ tasks[u].pc = "done"
        /\ tasks[u].edit = "failed"
        /\ tasks[u].aiResponse = "[Received empty response from AI]"
        /\ Len(FinalCalls(u)) = 2
        /\ FinalCalls(u)[2].op = "sendMessage"
        /\ FinalCalls(u)[2].text = "[Received empty response from AI]"

\* how many times p occurs in s
CountOcc(s, p) ==
    Cardinality({i \in 1..(Len(s) - Len(p) + 1) : SubSeq(s, i, i + Len(p) - 1) = p})

\* what the list shows an entry as
EntryLabel(model) == IF Truthy(model.name) THEN model.name.val ELSE Interp(model.id)

FromAuthorized(msg, text) == msg = [from |-> authorizedUserId, text |-> Str(text)]

\* C21: /help and /list_models from the authorized sender change neither the
\* mode nor the active model nor the catalog, and send one reply each: the
\* help reply shows the current mode and the active model id; the list reply
\* holds every catalog entry, with " (Current)" on exactly the entries whose
\* id is the active model id.
C21_HelpAndListAreReadOnly ==
    /\ [][Handling /\ FromAuthorized(Handled, "/help") =>
            /\ SettingsUnchanged
            /\ Len(calls') = Len(calls) + 1
            /\ SubSeq(calls', 1, Len(calls)) = calls
            /\ calls'[Len(calls')].op = "sendMessage"
            /\ Includes(calls'[Len(calls')].text, "Current Mode: " \o currentMode \o "\n")
            /\ Includes(calls'[Len(calls')].text,
                        "Current Model: " \o Interp(currentModelId) \o "\n")]_vars
    /\ [][Handling /\ FromAuthorized(Handled, "/list_models") =>
            LET reply == calls'[Len(calls')].text
                marked == {i \in 1..Len(availableModels) :
                              availableModels[i].id = currentModelId}
            IN  /\ SettingsUnchanged
                /\ Len(calls') = Len(calls) + 1
                /\ SubSeq(calls', 1, Len(calls)) = calls
                /\ calls'[Len(calls')].op = "sendMessage"
                /\ CountOcc(reply, "\n  ID: ") = Len(availableModels)
                /\ CountOcc(reply, " (Current)") = Cardinality(marked)
                /\ \A i \in 1..Len(availableModels) :
                      Includes(reply,
                          "- " \o EntryLabel(availableModels[i])
                          \o (IF i \in marked THEN " (Current)" ELSE "")
                          \o "\n  ID: " \o Interp(availableModels[i].id) \o "\n")
                /\ Includes(reply, "Current Model ID: " \o Interp(currentModelId))]_vars

\* the model was switched to google/gemini and the list was then asked for
C21_Witness ==
    /\ Len(updates) = 2
    /\ FromAuthorized(updates[1], "/set_model google/gemini")
    /\ FromAuthorized(updates[2], "/list_models")
    /\ modelsFile = ModelFile("array", <<DeepSeekEntry, GoogleEntry>>)
    /\ currentModelId = Str("google/gemini")
    /\ Len(calls) = 2
    /\ Includes(calls[2].text, "- google/gemini (Current)\n  ID: google/gemini\n")
    /\ Includes(calls[2].text, "- DeepSeek V3\n  ID: deepseek/chat\n")

\* C22: the mode is prompt at start-up and is always one of prompt, commit
\* and chat; only a mode-switch command of the authorized sender changes it;
\* and so no message the bot handles is answered with the composer's
\* "Invalid processing mode" text: every payload that is not blank gets a
\* request sent for it.
C22_ModeIsAlwaysValid ==
    /\ currentMode = "prompt"
    /\ [](currentMode \in {"prompt", "commit", "chat"})
    /\ [][currentMode' # currentMode =>
            /\ Handling
            /\ Handled.from = authorizedUserId
            /\ Handled.text.type = "string"
            /\ Handled.text.val \in ModeCommands
            /\ currentMode' = CommandedMode(Handled.text.val)]_vars
    /\ [](\A i \in 1..Len(calls) :
            ~Includes(calls[i].text, "Internal error: Invalid processing mode."))
    /\ [](\A u \in 1..Len(tasks) :
            /\ tasks[u].aiResponse # "Internal error: Invalid processing mode."
            /\ tasks[u].pc \in {"awaitFetch", "awaitBody", "awaitCall", "awaitEdit", "done"}
                  /\ Trim(updates[u].text.val) # ""
               => \E i \in 1..Len(calls) : calls[i].op = "fetch" /\ calls[i].update = u)

\* the mode was switched to chat, and a payload was then composed with the
\* chat instruction and no prefix
C22_Witness ==
    \E i \in 1..Len(calls) :
        /\ Len(updates) = 2
        /\ FromAuthorized(updates[1], "/chat_mode")
        /\ FromAuthorized(updates[2], "hello")
        /\ currentMode = "chat"
        /\ calls[i].op = "fetch"
        /\ calls[i].req.messages[1].content.val = ChatSystem
        /\ calls[i].req.messages[2].content.val = "hello"

\* the positions in calls of the calls of kind op made for update u
CallsAt(u, op) == {i \in 1..Len(calls) : calls[i].update = u /\ calls[i].op = op}

\* C23: with two payloads of the authorized user in flight at once, in
\* whatever order their remote calls and edits complete, every edit goes to
\* the acknowledgment that was sent for the same inbound message, comes
\* after that message's own request, which was composed from its own text,
\* and carries that exchange's own result.
C23_EditsOwnAcknowledgment ==
    \A i \in 1..Len(calls) :
        calls[i].op = "editMessageText" =>
            LET u   == calls[i].update
                ack == calls[i].messageId
            IN  /\ ack \in 1..(i - 1)
                /\ calls[ack].update = u
                /\ calls[ack].op = "sendMessage"
                /\ StartsWith(calls[ack].text, "Processing in ")
                /\ \A v \in 1..Len(updates) : v # u => calls[ack].update # v
                /\ calls[i].text = tasks[u].aiResponse
                /\ Cardinality(CallsAt(u, "editMessageText")) = 1
                /\ \A f \in CallsAt(u, "fetch") :
                      /\ f \in (ack + 1)..(i - 1)
                      /\ \E m \in Modes :
                            UserContent(calls[f].req).val
                              = ExpectedPrefix(m) \o Trim(updates[u].text.val)
                /\ Trim(updates[u].text.val) # "" => CallsAt(u, "fetch") # {}

\* two payloads were acknowledged before either request went out, the second
\* was answered and edited first, and the two answers differ
C23_Witness ==
    /\ Len(updates) = 2
    /\ PlainPayload(updates[1])
    /\ PlainPayload(updates[2])
    /\ updates[1].text # updates[2].text
    /\ Len(calls) = 6
    /\ calls[1].update = 1 /\ calls[2].update = 2
    /\ calls[3].op = "fetch" /\ calls[4].op = "fetch"
    /\ calls[5] = [op |-> "editMessageText", update |-> 2, text |-> "Hi",
                   messageId |-> 2, req |-> NoReq]
    /\ calls[6].op = "editMessageText"
    /\ calls[6].update = 1
    /\ calls[6].messageId = 1
    /\ calls[6].text # "Hi"

\* the sends made for update u after its acknowledgment
LaterSends(u) ==
    {i \in CallsAt(u, "sendMessage") : \E j \in CallsAt(u, "sendMessage") : j < i}

\* C24: the final text of a payload is delivered at most once: at most one
\* edit is made for it; a new message is sent for it only if the
\* acknowledgment could not be sent or the edit failed, and then only one;
\* an edit that succeeded, or is still pending, is never accompanied by a
\* new message.
C24_DeliveredAtMostOnce ==
    \A u \in 1..Len(updates) :
        LET t     == tasks[u]
            edits == CallsAt(u, "editMessageText")
            sends == LaterSends(u)
        IN  /\ Cardinality(edits) <= 1
            /\ Cardinality(sends) <= 1
            /\ sends # {} => /\ t.pc = "done"
                             /\ \/ t.ackId = 0 /\ edits = {}
                                \/ t.edit = "failed" /\ edits # {}
            /\ t.edit = "ok" => sends = {} /\ Cardinality(edits) = 1
            /\ t.pc = "awaitEdit" => sends = {} /\ Cardinality(edits) = 1
            /\ t.pc \in {"awaitAck", "awaitCall", "awaitFetch"} =>
                  sends = {} /\ edits = {}
            /\ t.pc = "done" => Cardinality(edits) + Cardinality(sends) \in {1, 2}

\* a request timed out, the acknowledgment was edited to say so, and nothing
\* else was sent
C24_Witness ==
    \E u \in 1..Len(updates) :
        /\ tasks[u].pc = "done"
        /\ tasks[u].edit = "ok"
        /\ tasks[u].aiResponse = "Sorry, the request to the AI timed out."
        /\ Cardinality(CallsAt(u, "editMessageText")) = 1
        /\ Cardinality(CallsAt(u, "sendMessage")) = 1

\* the registered patterns, by the text of their regular expression
Patterns ==
    {"^/start", "^/help$", "^/prompt_mode$", "^/commit_mode$", "^/chat_mode$",
     "^/list_models$", "^/set_model (.+)$"}

PatternMatches(p, text) ==
    IF p = "^/start" THEN MatchesStart(text)
    ELSE IF p = "^/set_model (.+)$" THEN MatchesSetModel(text)
    ELSE text = SubSeq(p, 2, Len(p) - 1)

\* the replies the command handlers send
IsCommandReply(text) ==
    \/ text = "You are authorized."
    \/ StartsWith(text, "User ID ")
    \/ StartsWith(text, "Available Commands:")
    \/ StartsWith(text, "Switched to ")
    \/ StartsWith(text, "Available Models:")
    \/ StartsWith(text, "No models loaded.")
    \/ StartsWith(text, "Switched model to: ")
    \/ StartsWith(text, "Error: Model ID ")

\* C25: no text is matched by two command patterns, so handling one inbound
\* message runs at most one command handler: it sends at most one command
\* reply and changes at most one of the mode and the active model.
C25_AtMostOneCommandHandler ==
    /\ [](\A u \in 1..Len(updates) :
            updates[u].text.type = "string" =>
                /\ Cardinality({p \in Patterns : PatternMatches(p, updates[u].text.val)}) <= 1
                /\ Cardinality({i \in CallsAt(u, "sendMessage") :
                                   IsCommandReply(calls[i].text)}) <= 1)
    /\ [][Handling =>
            /\ Cardinality({i \in (Len(calls) + 1)..Len(calls') :
                               IsCommandReply(calls'[i].text)}) <= 1
            /\ currentMode' = currentMode \/ currentModelId' = currentModelId
            /\ availableModels' = availableModels
            /\ (\A p \in Patterns : Handled.text.type = "string"
                                      => ~PatternMatches(p, Handled.text.val))
                  => /\ SettingsUnchanged
                     /\ \A i \in (Len(calls) + 1)..Len(calls') :
                           ~IsCommandReply(calls'[i].text)]_vars

\* a mode switch and a model switch were handled, one reply each
C25_Witness ==
    /\ Len(updates) = 2
    /\ FromAuthorized(updates[1], "/chat_mode")
    /\ FromAuthorized(updates[2], "/set_model  deepseek/chat ")
    /\ Len(calls) = 2
    /\ IsCommandReply(calls[1].text)
    /\ IsCommandReply(calls[2].text)
    /\ currentMode = "chat"

\* a delivery of the final text of update u has been attempted
DeliveryAttempted(u) ==
    /\ tasks[u].pc \in {"awaitEdit", "done"}
    /\ CallsAt(u, "editMessageText") \cup LaterSends(u) # {}

\* C26: every text of the authorized sender that no command pattern matches
\* is eventually followed by an attempt to deliver its final text, an edit of
\* its acknowledgment or a new message, given that the send of the
\* acknowledgment and the HTTP request each settle, unless the process is
\* ended first.  Stated for a bot whose active model id is a string.
C26_PayloadIsEventuallyAnswered ==
    \A u \in 1..MaxUpdates :
        (/\ u <= Len(updates)
         /\ currentModelId.type = "string"
         /\ updates[u].from = authorizedUserId
         /\ Truthy(updates[u].text)
         /\ ~IsCommandText(updates[u].text.val))
        ~> (~running \/ (u <= Len(updates) /\ DeliveryAttempted(u)))
=============================================================================
